---- MODULE Spec2Model ----
(***************************************************************************)
(* The invoice extraction pipeline of app/main.py and                      *)
(* app/services/gemini_service.py: an upload arrives at POST               *)
(* /api/v1/process, is decoded and resized, sent to the vision model, and  *)
(* the model's text reply is fence-stripped, parsed and normalised into a  *)
(* record that the route flattens into the HTTP response.                  *)
(*                                                                         *)
(* Text is a sequence of tokens; money and quantities are integers counted *)
(* in hundredths (80.00 is 8000), so the 0.01 tolerance is 1.              *)
(***************************************************************************)
EXTENDS Integers, Sequences, FiniteSets, TLC

(***************************************************************************)
(* Bounds of the model.                                                    *)
(***************************************************************************)
MaxReplyLen == 4
MaxItems == 1
MaxStrLen == 4
MaxPages == 2
MaxScale == 2

(***************************************************************************)
(* Tokens of the model's reply text.                                       *)
(***************************************************************************)
TFence == "fence"
TJson == "json"
TWs == " "
TProse == "prose"
TOpen == "{"
TClose == "}"
TBody == "members"
TNum == "5"
TStrOpen == "note:'"
TStrClose == "'"
TComma == ","

Tokens == {TFence, TJson, TWs, TProse, TOpen, TClose, TBody, TNum}

StrTokens == {TFence, TJson, TProse, TOpen, TClose, TNum}

RECURSIVE SeqsUpTo(_, _)
SeqsUpTo(S, n) ==
    IF n = 0 THEN {<<>>}
    ELSE LET shorter == SeqsUpTo(S, n - 1)
         IN  shorter \cup {Append(s, x) : s \in {t \in shorter : Len(t) = n - 1}, x \in S}

(***************************************************************************)
(* Python str operations on token sequences.                               *)
(***************************************************************************)
\* i such that sep occurs in s at i, for the first occurrence at or after from; 0 if none
FindFrom(s, sep, from) ==
    LET hits == {i \in from..(Len(s) - Len(sep) + 1) : SubSeq(s, i, i + Len(sep) - 1) = sep}
    IN  IF hits = {} THEN 0 ELSE CHOOSE i \in hits : \A j \in hits : i <= j

\* sep in s
Contains(s, sep) == FindFrom(s, sep, 1) # 0

\* s.split(sep)[0]
SplitFirst(s, sep) ==
    LET i == FindFrom(s, sep, 1)
    IN  IF i = 0 THEN s ELSE SubSeq(s, 1, i - 1)

\* s.split(sep)[1], taken only when sep occurs in s
SplitSecond(s, sep) ==
    LET i == FindFrom(s, sep, 1)
        rest == SubSeq(s, i + Len(sep), Len(s))
    IN  SplitFirst(rest, sep)

\* s.strip()
Strip(s) ==
    LET keep == {i \in 1..Len(s) : s[i] # TWs}
    IN  IF keep = {} THEN <<>>
        ELSE LET lo == CHOOSE i \in keep : \A j \in keep : i <= j
                 hi == CHOOSE i \in keep : \A j \in keep : i >= j
             IN  SubSeq(s, lo, hi)

\* the "Clean up JSON string" block
CleanFences(text) ==
    IF Contains(text, <<TFence, TJson>>)
    THEN Strip(SplitFirst(SplitSecond(text, <<TFence, TJson>>), <<TFence>>))
    ELSE IF Contains(text, <<TFence>>)
         THEN Strip(SplitSecond(text, <<TFence>>))
         ELSE text

(***************************************************************************)
(* json.loads on a token sequence.  A JSON text is whitespace, one value,  *)
(* whitespace; a value is a number (digits), a string or an object; an     *)
(* object is "{", members separated by ",", "}".  TBody stands for the     *)
(* members the model extracted (their content is the body, see Bodies);    *)
(* TStrOpen .. TStrClose is a member whose key the pipeline never reads    *)
(* and whose string value holds the tokens in between.                     *)
(***************************************************************************)
JsonFail == [ok |-> FALSE, kind |-> "none", body |-> FALSE]

JsonValue(kind, hasBody) == [ok |-> TRUE, kind |-> kind, body |-> hasBody]

OnlyWs(s, from) == \A i \in from..Len(s) : s[i] = TWs

\* the tokens whose text holds a double quote
Quoted == {TBody, TStrOpen, TStrClose}

\* where the string whose content starts at s[from] closes: the first token
\* holding a quote must be the closing quote; 0 if the string does not close
StringEnd(s, from) ==
    LET hits == {i \in from..Len(s) : s[i] \in Quoted}
        j == CHOOSE i \in hits : \A k \in hits : i <= k
    IN  IF hits = {} THEN 0 ELSE IF s[j] = TStrClose THEN j ELSE 0

\* the object's text from s[i] on; st is "first" after "{", "after" after a
\* member and "need" after ","
RECURSIVE ScanObject(_, _, _, _)
ScanObject(s, i, st, hasBody) ==
    IF i > Len(s) THEN JsonFail
    ELSE IF s[i] = TWs THEN ScanObject(s, i + 1, st, hasBody)
    ELSE IF s[i] = TClose
         THEN IF st # "need" /\ OnlyWs(s, i + 1) THEN JsonValue("object", hasBody) ELSE JsonFail
    ELSE IF s[i] = TComma
         THEN IF st = "after" THEN ScanObject(s, i + 1, "need", hasBody) ELSE JsonFail
    ELSE IF s[i] = TBody
         THEN IF st # "after" THEN ScanObject(s, i + 1, "after", TRUE) ELSE JsonFail
    ELSE IF s[i] = TStrOpen
         THEN IF st # "after" /\ StringEnd(s, i + 1) # 0
              THEN ScanObject(s, StringEnd(s, i + 1) + 1, "after", hasBody)
              ELSE JsonFail
    ELSE JsonFail

\* json.loads(s): ok is FALSE where Python raises json.JSONDecodeError
JsonLoads(s) ==
    LET t == Strip(s)
    IN  IF t = <<>> THEN JsonFail
        ELSE IF t[1] = TNum
             THEN IF \A i \in 1..Len(t) : t[i] = TNum THEN JsonValue("int", FALSE) ELSE JsonFail
        ELSE IF t[1] = TStrClose
             THEN IF StringEnd(t, 2) = Len(t) THEN JsonValue("str", FALSE) ELSE JsonFail
        ELSE IF t[1] = TOpen THEN ScanObject(t, 2, "first", FALSE)
        ELSE JsonFail

(***************************************************************************)
(* JSON values of the members.  A number n is counted in hundredths; a     *)
(* string is a sequence of characters; an object is a function from the    *)
(* keys it has.                                                            *)
(***************************************************************************)
Null == [t |-> "null"]
Num(n) == [t |-> "num", n |-> n]
Str(s) == [t |-> "str", s |-> s]
Dict(d) == [t |-> "dict", d |-> d]
List(l) == [t |-> "list", l |-> l]

EmptyDict == [k \in {} |-> Null]

\* d.get(k, default)
Get(d, k, default) == IF k \in DOMAIN d THEN d[k] ELSE default

Digits == {"0", "1", "2", "3", "4", "5", "6", "7", "8", "9"}

DigitVal(c) ==
    CASE c = "0" -> 0 [] c = "1" -> 1 [] c = "2" -> 2 [] c = "3" -> 3 [] c = "4" -> 4
      [] c = "5" -> 5 [] c = "6" -> 6 [] c = "7" -> 7 [] c = "8" -> 8 [] c = "9" -> 9

RECURSIVE DecimalOf(_)
DecimalOf(s) ==
    IF s = <<>> THEN 0
    ELSE 10 * DecimalOf(SubSeq(s, 1, Len(s) - 1)) + DigitVal(s[Len(s)])

(***************************************************************************)
(* Exceptions: the type, the message (its parts in order) and the type of  *)
(* the exception first raised (the end of the __context__ chain).          *)
(***************************************************************************)
NoExc == [type |-> "none", msg |-> <<>>, root |-> "none"]

Raise(type, msg) == [type |-> type, msg |-> msg, root |-> type]

\* raise type(f"{prefix}: {str(e)}") inside "except Exception as e"
ReRaise(type, prefix, e) == [type |-> type, msg |-> <<prefix>> \o e.msg, root |-> e.root]

\* the exception float(v) raises, NoExc if none
FloatExc(v) ==
    CASE v.t = "num" -> NoExc
      [] v.t = "str" ->
             IF v.s # <<>> /\ \A i \in 1..Len(v.s) : v.s[i] \in Digits
             THEN NoExc
             ELSE Raise("ValueError", <<"could not convert string to float">> \o v.s)
      [] OTHER ->
             Raise("TypeError", <<"float() argument must be a string or a real number, not", v.t>>)

\* float(v), where it raises nothing
Float(v) == IF v.t = "num" THEN v.n ELSE 100 * DecimalOf(v.s)

(***************************************************************************)
(* The parsed JSON object (the body) and the bodies the model may answer.  *)
(***************************************************************************)
TaxOrder == <<"cgst_rate", "cgst_amount", "sgst_rate", "sgst_amount",
              "igst_rate", "igst_amount", "total_tax">>

ItemOrder == <<"quantity", "unit_price", "tax_rate", "tax_amount", "amount">>

TaxKeys == {"gstin"} \cup {TaxOrder[i] : i \in 1..Len(TaxOrder)}

ItemKeys == {"description"} \cup {ItemOrder[i] : i \in 1..Len(ItemOrder)}

EmptyBody == EmptyDict

\* the value of a key that the object is to lack
Absent == [t |-> "absent"]

\* d with key k holding v, or lacking k when v is Absent
Put(d, k, v) ==
    IF v = Absent THEN [x \in DOMAIN d \ {k} |-> d[x]]
    ELSE [x \in DOMAIN d \cup {k} |-> IF x = k THEN v ELSE d[x]]

Item(q, p, a) ==
    [description |-> Str(<<"W">>), quantity |-> q, unit_price |-> p, amount |-> a]

BaseItem == Item(Num(200), Num(4000), Num(8000))

BaseTax == [k \in TaxKeys |-> IF k = "gstin" THEN Str(<<"G">>) ELSE Num(0)]

\* the scenario of the specification: total 100, one item 2 x 40 = 80
BaseBody ==
    [vendor |-> Str(<<"A">>), invoice_number |-> Str(<<"I">>), date |-> Str(<<"D">>),
     currency |-> Str(<<"U", "S", "D">>),
     subtotal |-> Num(8000), total |-> Num(10000),
     tax_details |-> Dict(BaseTax),
     items |-> List(<<BaseItem>>)]

NumVals == {Absent, Null, Num(8000), Num(10000), Str(<<"8", "0">>), Str(<<"a", "b", "c">>)}

ItemSet == {Item(Num(200), Num(4000), a) : a \in {Num(8000), Num(8001), Num(9000)}}

ItemLists == SeqsUpTo(ItemSet, MaxItems)

Bodies ==
    {Put(Put(BaseBody, "total", v), "items", List(l)) : v \in NumVals, l \in ItemLists}
    \cup {Put(BaseBody, "subtotal", v) : v \in NumVals}
    \cup {Put(BaseBody, "tax_details", Dict(Put(BaseTax, k, v))) :
             k \in TaxKeys \ {"gstin"}, v \in NumVals}
    \cup {Put(BaseBody, "items", List(<<Put(BaseItem, k, v)>>)) :
             k \in ItemKeys \ {"description"}, v \in NumVals}
    \cup {Put(BaseBody, k, v) : k \in {"tax_details", "items"}, v \in {Absent, Null}}
    \cup {EmptyBody}

(***************************************************************************)
(* The field normaliser: "Process tax details" to "Add confidence score".  *)
(***************************************************************************)
\* the first exception of a sequence of evaluations, NoExc if none raises
FirstExc(checks) ==
    LET bad == {i \in 1..Len(checks) : checks[i] # NoExc}
    IN  IF bad = {} THEN NoExc
        ELSE checks[CHOOSE i \in bad : \A j \in bad : i <= j]

\* data.get("tax_details", {}) and data.get("items", [])
TaxDetails(body) == Get(body, "tax_details", Dict(EmptyDict))

Items(body) == Get(body, "items", List(<<>>))

\* the exceptions of float(d.get(k, 0)) for the keys in order
FloatChecks(d, order) == [i \in 1..Len(order) |-> FloatExc(Get(d, order[i], Num(0)))]

RECURSIVE ItemChecks(_)
ItemChecks(l) ==
    IF l = <<>> THEN <<>>
    ELSE FloatChecks(l[1], ItemOrder) \o ItemChecks(Tail(l))

\* the exceptions of the evaluations, in the order Python makes them
NormalizeChecks(body) ==
    IF TaxDetails(body).t # "dict"
    THEN <<Raise("AttributeError", <<TaxDetails(body).t, "object has no attribute 'get'">>)>>
    ELSE FloatChecks(TaxDetails(body).d, TaxOrder)
         \o FloatChecks(body, <<"subtotal", "total">>)
         \o IF Items(body).t # "list"
            THEN <<Raise("TypeError", <<Items(body).t, "object is not iterable">>)>>
            ELSE ItemChecks(Items(body).l)

ProcessedItem(item) ==
    [k \in ItemKeys |->
        IF k = "description" THEN Get(item, k, Str(<<>>))
        ELSE Float(Get(item, k, Num(0)))]

DefaultConfidence == 9500

\* processed_data, built where NormalizeChecks raises nothing
ProcessedData(body) ==
    [vendor |-> Get(body, "vendor", Str(<<>>)),
     invoice_number |-> Get(body, "invoice_number", Str(<<>>)),
     date |-> Get(body, "date", Str(<<>>)),
     subtotal |-> Float(Get(body, "subtotal", Num(0))),
     tax_details |->
        [k \in TaxKeys |->
            IF k = "gstin" THEN Get(TaxDetails(body).d, k, Str(<<>>))
            ELSE Float(Get(TaxDetails(body).d, k, Num(0)))],
     total |-> Float(Get(body, "total", Num(0))),
     currency |-> Get(body, "currency", Str(<<"I", "N", "R">>)),
     items |-> [i \in 1..Len(Items(body).l) |-> ProcessedItem(Items(body).l[i])],
     confidence_score |-> DefaultConfidence]

\* the minimal record with the confidence score of the normal path
MinimalRecordMutant ==
    [vendor |-> Str(<<>>), invoice_number |-> Str(<<>>), date |-> Str(<<>>),
     total |-> 0, currency |-> Str(<<"U", "S", "D">>), items |-> <<>>,
     confidence_score |-> DefaultConfidence]

\* "Return minimal valid data" of the json.JSONDecodeError handler
MinimalRecord ==
    [vendor |-> Str(<<>>), invoice_number |-> Str(<<>>), date |-> Str(<<>>),
     total |-> 0, currency |-> Str(<<"U", "S", "D">>), items |-> <<>>,
     confidence_score |-> 0]

(***************************************************************************)
(* From the model's stripped text to what process_invoice returns or       *)
(* raises: fence clean-up, json.loads, normalisation, the JSONDecodeError  *)
(* handler and the outer "except Exception".                               *)
(***************************************************************************)
NoData == [none |-> TRUE]

Returned(text, data) == [exc |-> NoExc, text |-> text, data |-> data]

\* the outer handler: raise Exception(f"Failed to process invoice: {str(e)}")
Failed(e) ==
    [exc |-> ReRaise("Exception", "Failed to process invoice", e), text |-> <<>>, data |-> NoData]

\* the body json.loads yields for an object text
BodyOf(j, body) == IF j.body THEN body ELSE EmptyBody

ParseAndNormalize(extracted_text, body) ==
    LET cleaned == CleanFences(extracted_text)
        j == JsonLoads(cleaned)
        e == FirstExc(NormalizeChecks(BodyOf(j, body)))
    IN  IF ~j.ok THEN Returned(cleaned, MinimalRecord)
        ELSE IF j.kind # "object"
             THEN Failed(Raise("AttributeError", <<j.kind, "object has no attribute 'get'">>))
        ELSE IF e # NoExc THEN Failed(e)
        ELSE Returned(cleaned, ProcessedData(BodyOf(j, body)))

\* the "Generate response" block once the provider has answered; NoReply is a
\* response that is falsy or has no text
NoReply == <<"no text">>

\* the check of the response alone, without the check of its stripped text
EmptyCheckMutant(reply) ==
    IF reply = NoReply
    THEN Raise("ValueError", <<"Empty response from Gemini API">>)
    ELSE NoExc

EmptyCheck(reply) ==
    IF reply = NoReply
    THEN Raise("ValueError", <<"Empty response from Gemini API">>)
    ELSE IF Strip(reply) = <<>>
         THEN Raise("ValueError", <<"Empty text in response">>)
         ELSE NoExc

\* everything process_invoice does with the provider's answer
AfterReply(reply, body) ==
    IF EmptyCheck(reply) # NoExc
    THEN Failed(ReRaise("ValueError", "Gemini API Error", EmptyCheck(reply)))
    ELSE ParseAndNormalize(Strip(reply), body)

\* everything process_invoice does when the provider call raises
AfterProviderError ==
    Failed(ReRaise("ValueError", "Gemini API Error", Raise("ProviderError", <<"unavailable">>)))

(***************************************************************************)
(* Uploads.  A document is an image (one raster), a PDF (the rasters of    *)
(* its rendered pages, possibly none), bytes nothing can decode, or more   *)
(* bytes than MAX_UPLOAD_SIZE.                                             *)
(***************************************************************************)
max_size == 1600

Mimes == {"image/jpeg", "image/png", "application/pdf", "text/plain"}

ALLOWED_MIME_TYPES == {"image/jpeg", "image/png", "application/pdf"}

IsImageMime(m) == m \in {"image/jpeg", "image/png"}

Sizes == {1, max_size \div 2, max_size, max_size + 1} \cup {max_size * k : k \in 2..MaxScale}

PageSizes == {max_size \div 2, max_size * MaxScale}

Raster(w, h, mode) == [w |-> w, h |-> h, mode |-> mode]

NoImage == Raster(0, 0, "none")

Doc(kind, pages) == [kind |-> kind, pages |-> pages]

NoDoc == Doc("none", <<>>)

Docs ==
    {Doc("oversize", <<>>), Doc("garbage", <<>>)}
    \cup {Doc("image", <<Raster(w, h, m)>>) : w \in Sizes, h \in Sizes, m \in {"RGB", "RGBA"}}
    \cup {Doc("pdf", ps) : ps \in SeqsUpTo({Raster(w, h, "RGB") : w \in PageSizes, h \in PageSizes}, MaxPages)}

(***************************************************************************)
(* The image normaliser.                                                   *)
(***************************************************************************)
Max(a, b) == IF a >= b THEN a ELSE b

\* int(x * ratio) for ratio = min(max_size / w, max_size / h), long = max(w, h).
\* The product is x * max_size / long up to one rounding of a double, which
\* can fall just under the exact value only when that value is an integer;
\* int() then truncates to one less.
Scaled(x, long) ==
    LET q == (x * max_size) \div long
    IN  IF (x * max_size) % long = 0 THEN {q, q - 1} ELSE {q}

Min(a, b) == IF a <= b THEN a ELSE b

\* the resize with ratio = max(max_size / w, max_size / h)
NewSizesMutant(w, h) ==
    IF w > max_size \/ h > max_size
    THEN {<<nw, nh>> : nw \in Scaled(w, Min(w, h)), nh \in Scaled(h, Min(w, h))}
    ELSE {<<w, h>>}

\* "Resize image if too large": the sizes image.resize may be asked for
NewSizes(w, h) ==
    IF w > max_size \/ h > max_size
    THEN {<<nw, nh>> : nw \in Scaled(w, Max(w, h)), nh \in Scaled(h, Max(w, h))}
    ELSE {<<w, h>>}

\* the image process_invoice opens: images[0] of the PDF, Image.open of an image
\* (NoImage is None); taken only where Decoding raises nothing
Opened(m, doc) ==
    IF IsImageMime(m) THEN doc.pages[1]
    ELSE IF doc.pages = <<>> THEN NoImage ELSE doc.pages[1]

\* the exception of the "Handle different file types" block, NoExc if none
Decoding(m, doc) ==
    IF IsImageMime(m)
    THEN IF doc.kind = "image" THEN NoExc
         ELSE Raise("UnidentifiedImageError", <<"cannot identify image file">>)
    ELSE IF m = "application/pdf"
         THEN IF doc.kind = "pdf" THEN NoExc
              ELSE [type |-> "ValueError", msg |-> <<"Failed to process PDF file">>,
                    root |-> "PDFPageCountError"]
         ELSE Raise("ValueError", <<"Unsupported file type">>)

\* the exception of lines 42-51 on the opened image for the size chosen
Normalizing(img, size) ==
    IF img = NoImage
    THEN Raise("AttributeError", <<"'NoneType' object has no attribute 'mode'">>)
    ELSE IF size[1] < 1 \/ size[2] < 1
         THEN Raise("ValueError", <<"height and width must be > 0">>)
         ELSE NoExc

(***************************************************************************)
(* The route's responses.                                                  *)
(***************************************************************************)
NoResp == [status |-> 0, body |-> NoData]

Http400(detail) == [status |-> 400, body |-> [detail |-> detail]]

TaxOf(data, k, default) ==
    IF "tax_details" \in DOMAIN data THEN data.tax_details[k] ELSE default

\* response_data of the route
ResponseData(text, data) ==
    [success |-> TRUE,
     extracted_text |-> text,
     parsed_data |->
        [basic_info |-> [vendor |-> data.vendor, invoice_number |-> data.invoice_number,
                         date |-> data.date],
         amounts |-> [subtotal |-> IF "subtotal" \in DOMAIN data THEN data.subtotal ELSE 0,
                      total |-> data.total, currency |-> data.currency],
         tax_info |-> [gstin |-> TaxOf(data, "gstin", Str(<<>>)),
                       tax_details |->
                          <<[type |-> "CGST", rate |-> TaxOf(data, "cgst_rate", 0),
                             amount |-> TaxOf(data, "cgst_amount", 0)],
                            [type |-> "SGST", rate |-> TaxOf(data, "sgst_rate", 0),
                             amount |-> TaxOf(data, "sgst_amount", 0)],
                            [type |-> "IGST", rate |-> TaxOf(data, "igst_rate", 0),
                             amount |-> TaxOf(data, "igst_amount", 0)]>>,
                       total_tax |-> TaxOf(data, "total_tax", 0)],
         items |-> data.items,
         metadata |-> [confidence_score |->
                          IF "confidence_score" \in DOMAIN data
                          THEN data.confidence_score ELSE DefaultConfidence]]]

\* the route's answer to what process_invoice returned or raised
Respond(result) ==
    IF result.exc = NoExc
    THEN [status |-> 200, body |-> ResponseData(result.text, result.data)]
    ELSE [status |-> 500,
          body |-> [success |-> FALSE, error |-> result.exc.msg,
                    error_type |-> result.exc.type]]

(***************************************************************************)
(* The requests.  The route is an "async def" run by one event loop: loop  *)
(* is the request whose handler occupies the loop's thread, 0 when the     *)
(* thread is free.  A handler gives the thread up only at an await that    *)
(* suspends ("await file.read()"); generate_content is a plain call, so    *)
(* the handler keeps the thread while the provider works.                  *)
(***************************************************************************)
VARIABLES pc, loop, mime, contents, image, calls, answer, exc, resp,
          fenceJ, fenceBody, fenceOut

vars == <<pc, loop, mime, contents, image, calls, answer, exc, resp,
          fenceJ, fenceBody, fenceOut>>

fenceVars == <<fenceJ, fenceBody, fenceOut>>

Requests == {1, 2}

Replies == SeqsUpTo(Tokens, MaxReplyLen)

\* what the provider answered: the text, and the content of its members
Answer(text, body) == [text |-> text, body |-> body]

NoAnswer == Answer(<<>>, EmptyBody)

Wrappings == {"plain", "json", "bare"}

NoResult == [exc |-> NoExc, text |-> <<>>, data |-> NoData]

InitRequests ==
    /\ pc = [r \in Requests |-> "idle"]
    /\ loop = 0
    /\ mime = [r \in Requests |-> "none"]
    /\ contents = [r \in Requests |-> NoDoc]
    /\ image = [r \in Requests |-> NoImage]
    /\ calls = [r \in Requests |-> 0]
    /\ answer = [r \in Requests |-> NoAnswer]
    /\ exc = [r \in Requests |-> NoExc]
    /\ resp = [r \in Requests |-> NoResp]

Init ==
    /\ InitRequests
    /\ fenceJ = <<>>
    /\ fenceBody = EmptyBody
    /\ fenceOut = [k \in Wrappings |-> NoResult]

\* main.py: the content-type check, up to "await file.read()"
Arrive(r) ==
    /\ pc[r] = "idle"
    /\ loop = 0
    /\ \E m \in Mimes :
          /\ mime' = [mime EXCEPT ![r] = m]
          /\ IF m \notin ALLOWED_MIME_TYPES
             THEN /\ pc' = [pc EXCEPT ![r] = "done"]
                  /\ resp' = [resp EXCEPT ![r] = Http400("unsupported content type")]
             ELSE /\ pc' = [pc EXCEPT ![r] = "reading"]
                  /\ UNCHANGED resp
    /\ UNCHANGED <<loop, contents, image, calls, answer, exc, fenceVars>>

\* main.py: file.read() completes, the size check, entering process_invoice
Read(r, docs) ==
    /\ pc[r] = "reading"
    /\ loop = 0
    /\ \E doc \in docs :
          /\ contents' = [contents EXCEPT ![r] = doc]
          /\ IF doc.kind = "oversize"
             THEN /\ pc' = [pc EXCEPT ![r] = "done"]
                  /\ resp' = [resp EXCEPT ![r] = Http400("file size exceeds maximum limit")]
                  /\ UNCHANGED loop
             ELSE /\ pc' = [pc EXCEPT ![r] = "processing"]
                  /\ loop' = r
                  /\ UNCHANGED resp
    /\ UNCHANGED <<mime, image, calls, answer, exc, fenceVars>>

\* process_invoice raises or returns, and the route answers
Finish(r, result) ==
    /\ pc' = [pc EXCEPT ![r] = "done"]
    /\ loop' = 0
    /\ exc' = [exc EXCEPT ![r] = result.exc]
    /\ resp' = [resp EXCEPT ![r] = Respond(result)]

\* process_invoice: open the document, convert to RGB, resize, encode
Prepare(r) ==
    /\ pc[r] = "processing"
    /\ LET d == Decoding(mime[r], contents[r])
           img == Opened(mime[r], contents[r])
       IN  IF d # NoExc
           THEN Finish(r, Failed(d)) /\ UNCHANGED image
           ELSE \E size \in NewSizes(img.w, img.h) :
                   IF Normalizing(img, size) # NoExc
                   THEN Finish(r, Failed(Normalizing(img, size))) /\ UNCHANGED image
                   ELSE /\ image' = [image EXCEPT ![r] = Raster(size[1], size[2], "RGB")]
                        /\ pc' = [pc EXCEPT ![r] = "prepared"]
                        /\ UNCHANGED <<loop, exc, resp>>
    /\ UNCHANGED <<mime, contents, calls, answer, fenceVars>>

\* process_invoice: generate_content is called with the prompt and the encoded
\* image; neither the upload nor the image is used again
Invoke(r) ==
    /\ pc[r] = "prepared"
    /\ pc' = [pc EXCEPT ![r] = "in_model"]
    /\ calls' = [calls EXCEPT ![r] = @ + 1]
    /\ contents' = [contents EXCEPT ![r] = NoDoc]
    /\ image' = [image EXCEPT ![r] = NoImage]
    /\ UNCHANGED <<loop, mime, answer, exc, resp, fenceVars>>

\* generate_content raises
ModelRaise(r) ==
    /\ pc[r] = "in_model"
    /\ Finish(r, AfterProviderError)
    /\ UNCHANGED <<mime, contents, image, calls, answer, fenceVars>>

\* the content of the members is drawn where json.loads reads them; elsewhere
\* no code looks at it
ReadsBody(reply) == reply # NoReply /\ JsonLoads(CleanFences(Strip(reply))).body

\* generate_content returns; the rest of process_invoice and of the route
ModelReply(r, replies, bodies) ==
    /\ pc[r] = "in_model"
    /\ \E reply \in replies \cup {NoReply} :
          \E body \in IF ReadsBody(reply) THEN bodies ELSE {EmptyBody} :
             /\ answer' = [answer EXCEPT ![r] = Answer(reply, body)]
             /\ Finish(r, AfterReply(reply, body))
    /\ UNCHANGED <<mime, contents, image, calls, fenceVars>>

\* one step of request r
Step(r, docs, replies, bodies) ==
    \/ Arrive(r)
    \/ Read(r, docs)
    \/ Prepare(r)
    \/ Invoke(r)
    \/ ModelRaise(r)
    \/ ModelReply(r, replies, bodies)

Next == Step(1, Docs, Replies, Bodies)

Spec == Init /\ [][Next]_vars

(***************************************************************************)
(* Two requests on the one event loop, over a few uploads and answers.     *)
(***************************************************************************)
LoopDocs ==
    {Doc("oversize", <<>>), Doc("garbage", <<>>), Doc("pdf", <<>>),
     Doc("pdf", <<Raster(max_size, max_size + 1, "RGB")>>),
     Doc("image", <<Raster(max_size, max_size, "RGBA")>>)}

LoopReplies == {<<>>, <<TProse>>, <<TOpen, TBody, TClose>>}

LoopBodies == {BaseBody, [BaseBody EXCEPT !.total = Str(<<"a", "b", "c">>)]}

LoopStep(r) == Step(r, LoopDocs, LoopReplies, LoopBodies)

NextLoop == \E r \in Requests : LoopStep(r)

SpecLoop == Init /\ [][NextLoop]_vars

(***************************************************************************)
(* The fence clean-up as a function of the answer: one JSON object text,   *)
(* answered bare, inside a json fence and inside a plain fence.            *)
(***************************************************************************)
Wrap(k, J) ==
    CASE k = "json" -> <<TFence, TJson, TWs>> \o J \o <<TWs, TFence>>
      [] k = "bare" -> <<TFence, TWs>> \o J \o <<TWs, TFence>>
      [] OTHER -> J

StrTexts == SeqsUpTo(StrTokens, MaxStrLen)

\* the texts of JSON objects: no member, the members, a string member, both
ObjectTexts ==
    {<<TOpen, TClose>>, <<TOpen, TBody, TClose>>}
    \cup {<<TOpen, TStrOpen>> \o str \o <<TStrClose, TClose>> : str \in StrTexts}
    \cup {<<TOpen, TBody, TComma, TStrOpen>> \o str \o <<TStrClose, TClose>> : str \in StrTexts}

FenceBodies == {BaseBody, [BaseBody EXCEPT !.total = Str(<<"a", "b", "c">>)]}

InitFence ==
    /\ InitRequests
    /\ fenceJ \in ObjectTexts
    /\ fenceBody \in FenceBodies
    /\ fenceOut = [k \in Wrappings |-> NoResult]

\* process_invoice from the provider's answer on, for one wrapping of the text
NormalizeWrapped(k) ==
    /\ fenceOut[k] = NoResult
    /\ fenceOut' = [fenceOut EXCEPT ![k] = AfterReply(Wrap(k, fenceJ), fenceBody)]
    /\ UNCHANGED <<pc, loop, mime, contents, image, calls, answer, exc, resp, fenceJ, fenceBody>>

NextFence == \E k \in Wrappings : NormalizeWrapped(k)

SpecFence == InitFence /\ [][NextFence]_vars

(***************************************************************************)
(* The reconciliation validators of app/models/schemas.py.  Nothing in the *)
(* route or in process_invoice builds a LineItem or an InvoiceData, so no  *)
(* action applies them; the claims about reconciliation are stated with    *)
(* them.                                                                   *)
(***************************************************************************)
Tolerance == 1

Abs(x) == IF x < 0 THEN -x ELSE x

\* sum(item.amount for item in values['items'])
RECURSIVE SumAmounts(_)
SumAmounts(items) ==
    IF items = <<>> THEN 0
    ELSE items[Len(items)].amount + SumAmounts(SubSeq(items, 1, Len(items) - 1))

\* round(quantity * unit_price, 2); the product of two hundredths is counted
\* in ten-thousandths
ExpectedAmount(q, p) == (q * p + 50) \div 100

\* LineItem.validate_amount
validate_amount(v, q, p) ==
    IF Abs(v - ExpectedAmount(q, p)) > Tolerance THEN ExpectedAmount(q, p) ELSE v

(***************************************************************************)
(* What the claims speak of.                                               *)
(***************************************************************************)
Done(r) == pc[r] = "done"

Succeeded(r) == Done(r) /\ resp[r].status = 200

\* the record the caller received
Record(r) == resp[r].body.parsed_data

\* what json.loads made of the answer of request r, and the members it read
Parsed(r) == JsonLoads(CleanFences(Strip(answer[r].text)))

ParsedBody(r) == BodyOf(Parsed(r), answer[r].body)

ParsedObject(r) == Parsed(r).ok /\ Parsed(r).kind = "object"

\* C1: whenever the answer parses to an object with a non-empty items array
\* and its declared total differs from the sum of the normalised item amounts
\* by more than 0.01, the record's total is that sum rounded to 2 places.
C1_TotalReconciled ==
    \A r \in Requests :
        (/\ Succeeded(r)
         /\ ParsedObject(r)
         /\ Record(r).items # <<>>
         /\ Abs(Float(Get(ParsedBody(r), "total", Num(0))) - SumAmounts(Record(r).items)) > Tolerance)
        => Record(r).amounts.total = SumAmounts(Record(r).items)

\* C2: every item of the answer whose amount differs from quantity x unit
\* price by more than 0.01 comes back with amount round(quantity x unit
\* price, 2); the other items keep their amount.
C2_AmountReconciled ==
    \A r \in Requests :
        (Succeeded(r) /\ ParsedObject(r))
        => \A i \in 1..Len(Record(r).items) :
              Record(r).items[i].amount =
                 validate_amount(Float(Get(Items(ParsedBody(r)).l[i], "amount", Num(0))),
                                 Record(r).items[i].quantity,
                                 Record(r).items[i].unit_price)

\* the provider answered request r with a text
Answered(r) == Done(r) /\ calls[r] = 1 /\ Strip(answer[r].text) # <<>> /\ answer[r].text # NoReply

\* C3: one JSON object text answered bare, inside a json fence and inside a
\* plain fence gives the same outcome and the same record all three times.
C3_FenceRoundTrip ==
    (/\ JsonLoads(fenceJ).ok
     /\ JsonLoads(fenceJ).kind = "object"
     /\ \A k \in Wrappings : fenceOut[k] # NoResult)
    => \A k \in Wrappings :
          /\ fenceOut[k].exc = fenceOut["plain"].exc
          /\ fenceOut[k].data = fenceOut["plain"].data

\* the tokens of prose: words, whitespace and fences, nothing of JSON
ProseTokens == {TProse, TJson, TWs, TFence}

IsProse(text) == \A i \in 1..Len(text) : text[i] \in ProseTokens

\* C4: a non-empty answer of prose, with no brace and no JSON in it, ends in a
\* success response carrying the empty record: empty vendor, invoice number
\* and date, total 0, no items, confidence score 0.
C4_ProseYieldsEmptyRecord ==
    \A r \in Requests :
        (Answered(r) /\ IsProse(answer[r].text))
        => /\ exc[r] = NoExc
           /\ resp[r].status = 200
           /\ resp[r].body.success
           /\ Record(r).basic_info =
                 [vendor |-> Str(<<>>), invoice_number |-> Str(<<>>), date |-> Str(<<>>)]
           /\ Record(r).amounts.total = 0
           /\ Record(r).items = <<>>
           /\ Record(r).metadata.confidence_score = 0

C4_Witness ==
    \E r \in Requests :
        /\ Answered(r)
        /\ IsProse(answer[r].text)
        /\ TProse \in {answer[r].text[i] : i \in 1..Len(answer[r].text)}
        /\ resp[r].status = 200

\* the span from the first "{" to the last "}" of a text, <<>> if there is none
BraceSpan(s) ==
    LET opens == {i \in 1..Len(s) : s[i] = TOpen}
        closes == {i \in 1..Len(s) : s[i] = TClose}
        lo == CHOOSE i \in opens : \A j \in opens : i <= j
        hi == CHOOSE i \in closes : \A j \in closes : i >= j
    IN  IF opens = {} \/ closes = {} THEN <<>>
        ELSE IF lo > hi THEN <<>> ELSE SubSeq(s, lo, hi)

\* the fence-stripped answer of request r
Cleaned(r) == CleanFences(Strip(answer[r].text))

\* C5: when the fence-stripped answer fails the strict parse but its brace
\* span is a valid JSON object, the outcome is the one of normalising that
\* object.
C5_BraceSpanRecovered ==
    \A r \in Requests :
        (/\ Answered(r)
         /\ ~Parsed(r).ok
         /\ JsonLoads(BraceSpan(Cleaned(r))).ok
         /\ JsonLoads(BraceSpan(Cleaned(r))).kind = "object")
        => LET want == ParseAndNormalize(BraceSpan(Cleaned(r)), answer[r].body)
           IN  /\ exc[r] = want.exc
               /\ resp[r].status = 200
               /\ Record(r) = ResponseData(want.text, want.data).parsed_data

\* C6: every failure inside the pipeline reaches the caller as success =
\* false with an error message and the kind of the failure that occurred.
C6_FailureCarriesKind ==
    \A r \in Requests :
        (Done(r) /\ exc[r] # NoExc)
        => /\ resp[r].status # 200
           /\ "success" \in DOMAIN resp[r].body
           /\ ~resp[r].body.success
           /\ resp[r].body.error # <<>>
           /\ resp[r].body.error_type = exc[r].root

\* C7: a PDF that renders to zero pages fails as a render failure, reported
\* as the failure to process the PDF file, and the model is never invoked.
C7_ZeroPagesIsRenderError ==
    \A r \in Requests :
        (Done(r) /\ mime[r] = "application/pdf" /\ contents[r] = Doc("pdf", <<>>))
        => /\ calls[r] = 0
           /\ exc[r] # NoExc
           /\ exc[r].msg = Failed(Decoding("application/pdf", Doc("garbage", <<>>))).exc.msg

\* the keys of d, among those given, that hold a non-numeric string
NonNumeric(d, keys) ==
    {k \in keys : Get(d, k, Num(0)).t = "str" /\ FloatExc(Get(d, k, Num(0))) # NoExc}

\* the numeric fields of the body that hold a non-numeric string
NonNumericFields(body) ==
    NonNumeric(body, {"subtotal", "total"})
    \cup (IF TaxDetails(body).t = "dict"
          THEN NonNumeric(TaxDetails(body).d, TaxKeys \ {"gstin"}) ELSE {})
    \cup (IF Items(body).t = "list"
          THEN UNION {NonNumeric(Items(body).l[i], ItemKeys \ {"description"}) :
                         i \in 1..Len(Items(body).l)}
          ELSE {})

\* C8: when a numeric field of the parsed object holds a non-numeric string,
\* the request fails and the report names the offending field.
C8_CoercionNamesField ==
    \A r \in Requests :
        (Answered(r) /\ ParsedObject(r) /\ NonNumericFields(ParsedBody(r)) # {})
        => /\ exc[r] # NoExc
           /\ "error" \in DOMAIN resp[r].body
           /\ \E f \in NonNumericFields(ParsedBody(r)) :
                 \E i \in 1..Len(resp[r].body.error) : resp[r].body.error[i] = f

\* C9: while one request waits inside its model invocation, any other
\* request that has not finished can take a step.
C9_OthersProgress ==
    \A a \in Requests : \A b \in Requests \ {a} :
        (pc[a] = "in_model" /\ ~Done(b)) => ENABLED LoopStep(b)

\* C10: an image with a side over 1600 is sent with its longer side at 1600
\* within 1px and its shorter side within 1px of the same ratio; an image
\* with both sides at most 1600 is sent with its dimensions unchanged.
C10_ResizeBound ==
    \A r \in Requests :
        pc[r] = "prepared"
        => LET o == Opened(mime[r], contents[r])
               im == image[r]
           IN  IF o.w > max_size \/ o.h > max_size
               THEN /\ Abs(Max(im.w, im.h) - max_size) <= 1
                    /\ IF o.w >= o.h
                       THEN Abs(im.h * o.w - o.h * im.w) <= o.w
                       ELSE Abs(im.w * o.h - o.w * im.h) <= o.h
               ELSE im.w = o.w /\ im.h = o.h

C10_Witness ==
    \E r \in Requests :
        /\ pc[r] = "prepared"
        /\ Opened(mime[r], contents[r]).w > max_size
        /\ Opened(mime[r], contents[r]).h < Opened(mime[r], contents[r]).w
        /\ image[r].w < Opened(mime[r], contents[r]).w
        /\ image[r].h > 1

\* key k is missing from d, or holds null
Missing(d, k) == Get(d, k, Null) = Null

\* every numeric field of d among the keys is missing, null or convertible
Convertible(d, keys) == \A k \in keys : Missing(d, k) \/ FloatExc(d[k]) = NoExc

\* the object has the shape the prompt asks for, apart from missing fields
Shaped(body) ==
    /\ TaxDetails(body).t = "dict"
    /\ Items(body).t = "list"
    /\ Convertible(body, {"subtotal", "total"})
    /\ Convertible(TaxDetails(body).d, TaxKeys \ {"gstin"})
    /\ \A i \in 1..Len(Items(body).l) :
          Convertible(Items(body).l[i], ItemKeys \ {"description"})

\* the tax field k of the record the caller received
TaxInRecord(rec, k) ==
    CASE k = "cgst_rate" -> rec.tax_info.tax_details[1].rate
      [] k = "cgst_amount" -> rec.tax_info.tax_details[1].amount
      [] k = "sgst_rate" -> rec.tax_info.tax_details[2].rate
      [] k = "sgst_amount" -> rec.tax_info.tax_details[2].amount
      [] k = "igst_rate" -> rec.tax_info.tax_details[3].rate
      [] k = "igst_amount" -> rec.tax_info.tax_details[3].amount
      [] k = "total_tax" -> rec.tax_info.total_tax

\* C11: when the answer parses to an object whose numeric fields are numbers
\* or are absent (key missing, tax_details missing, or value null), the
\* request does not fail and every absent numeric field is 0 in the record.
C11_AbsentIsZero ==
    \A r \in Requests :
        (Answered(r) /\ ParsedObject(r) /\ Shaped(ParsedBody(r)))
        => /\ exc[r] = NoExc
           /\ resp[r].status = 200
           /\ \A k \in {"subtotal", "total"} :
                 Missing(ParsedBody(r), k) => Record(r).amounts[k] = 0
           /\ \A k \in TaxKeys \ {"gstin"} :
                 Missing(TaxDetails(ParsedBody(r)).d, k) => TaxInRecord(Record(r), k) = 0
           /\ \A i \in 1..Len(Items(ParsedBody(r)).l) :
                 \A k \in ItemKeys \ {"description"} :
                    Missing(Items(ParsedBody(r)).l[i], k) => Record(r).items[i][k] = 0

\* the model invocation of request r raised, or returned nothing or only
\* whitespace, and the request is over
ModelFailed(r) ==
    /\ Done(r)
    /\ calls[r] = 1
    /\ answer[r].text = NoReply \/ Strip(answer[r].text) = <<>>

\* C12: the model is invoked at most once per request; once an invocation
\* has raised or returned an empty response the request has ended in failure,
\* never in a record, and no later step invokes the model again or changes
\* the outcome.
C12_NoRetry ==
    /\ [](\A r \in Requests :
             /\ calls[r] <= 1
             /\ ModelFailed(r)
                => /\ exc[r] # NoExc
                   /\ resp[r].status = 500
                   /\ ~resp[r].body.success
                   /\ "parsed_data" \notin DOMAIN resp[r].body)
    /\ [][\A r \in Requests :
             ModelFailed(r) => /\ calls'[r] = calls[r]
                               /\ pc'[r] = pc[r]
                               /\ resp'[r] = resp[r]]_vars

C12_Witness ==
    \E r \in Requests :
        /\ ModelFailed(r)
        /\ answer[r].text # NoReply
        /\ answer[r].text # <<>>
        /\ resp[r].status = 500

====
